---- MODULE Spec2Model ----
(***************************************************************************)
(* Model of src/fuzz_introspector/analyses/sinks_analyser.py: the sink     *)
(* catalog, the corpus aggregator (retrieve_data_list), the callsite       *)
(* indexer (map_function_callsite), the reachability resolver              *)
(* (retrieve_reachable_functions), the sink filter (filter_function_list)  *)
(* and the coverage correlation loop of analysis_func.                     *)
(*                                                                         *)
(* A Python str is modelled as the sequence of its atoms: each separator   *)
(* character ('.', '(', ')', ':', '#') is one atom and each maximal run of *)
(* other characters is one atom ("java.lang" is <<"java", ".", "lang">>).  *)
(* Concatenation is \o, equality of strings is equality of sequences, and  *)
(* splitting at a separator is splitting the sequence at that atom.        *)
(* Python's None is the value None below, which no string equals.          *)
(***************************************************************************)
EXTENDS Integers, Sequences, FiniteSets, TLC

VARIABLES
    proj_profile,              \* MergedProjectProfile: all_functions, runtime_coverage
    profiles,                  \* List[FuzzerProfile]
    callsite_list,             \* retrieve_data_list()[0]
    function_list,             \* retrieve_data_list()[1]
    function_callsite_dict,    \* result of map_function_callsite
    reachable_function_list,   \* result of retrieve_reachable_functions
    sink_list,                 \* result of filter_function_list
    fd_idx,                    \* position of the outer loop of analysis_func in sink_list
    loc_idx,                   \* position of the inner loop in function_callsite_dict[fd]
    rows,                      \* the rows given to html_table_add_row, in order
    queries,                   \* the calls made to coverage.is_func_lineno_hit, per row
    pc,                        \* position of the run
    err                        \* the exception that ended the run, or NoError

vars == <<proj_profile, profiles, callsite_list, function_list,
          function_callsite_dict, reachable_function_list, sink_list,
          fd_idx, loc_idx, rows, queries, pc, err>>

----------------------------------------------------------------------------
(* Python values *)

None == <<"<None>">>
NoError == "NoError"
EmptyStr == <<>>

\* `not v` for a value that is None or a str
IsFalsy(v) == v = None \/ v = EmptyStr

\* "%s" % v for a value that is None or a str
FormatS(v) == IF v = None THEN <<"None">> ELSE v

Range(s) == {s[i] : i \in DOMAIN s}

\* s.split(sep): acc holds the finished fields, cur the field being read
RECURSIVE SplitAcc(_, _, _, _, _)
SplitAcc(s, sep, i, cur, acc) ==
    IF i > Len(s) THEN Append(acc, cur)
    ELSE IF s[i] = sep THEN SplitAcc(s, sep, i + 1, <<>>, Append(acc, cur))
    ELSE SplitAcc(s, sep, i + 1, Append(cur, s[i]), acc)

Split(s, sep) == SplitAcc(s, sep, 1, <<>>, <<>>)

\* position of the last occurrence of sep in s, 0 when there is none
LastIndexOf(s, sep) ==
    IF \E i \in DOMAIN s : s[i] = sep
    THEN CHOOSE i \in DOMAIN s : s[i] = sep /\ \A j \in DOMAIN s : s[j] = sep => j <= i
    ELSE 0

\* s.rsplit(sep, 1)
RSplit1(s, sep) ==
    LET k == LastIndexOf(s, sep)
    IN IF k = 0 THEN <<s>>
       ELSE <<SubSeq(s, 1, k - 1), SubSeq(s, k + 1, Len(s))>>

----------------------------------------------------------------------------
(* The sink catalog *)

SupportedLangs == {"c-cpp", "python", "jvm"}

JavaLang(c) == <<"java", ".", "lang", ".", c>>
Xpath == <<"javax", ".", "xml", ".", "xpath", ".", "XPath">>
Concurrent(c) == <<"java", ".", "util", ".", "concurrent", ".", c>>
Code(c) == <<"code", ".", c>>

SINK_FUNCTION ==
    [l \in SupportedLangs |->
        CASE l = "c-cpp" ->
            { <<EmptyStr, <<"system">>>>, <<EmptyStr, <<"execl">>>>,
              <<EmptyStr, <<"execve">>>>, <<EmptyStr, <<"wordexp">>>>,
              <<EmptyStr, <<"popen">>>>, <<EmptyStr, <<"fdopen">>>> }
          [] l = "python" ->
            { <<EmptyStr, <<"exec">>>>, <<EmptyStr, <<"eval">>>>,
              <<<<"subprocess">>, <<"call">>>>, <<<<"subprocess">>, <<"run">>>>,
              <<<<"subprocess">>, <<"Popen">>>>,
              <<<<"subprocess">>, <<"check_output">>>>,
              <<<<"os">>, <<"system">>>>, <<<<"os">>, <<"popen">>>>,
              <<<<"os">>, <<"spawnlpe">>>>, <<<<"os">>, <<"spawnve">>>>,
              <<<<"os">>, <<"execl">>>>, <<<<"os">>, <<"execve">>>>,
              <<<<"asyncio">>, <<"create_subprocess_shell">>>>,
              <<<<"asyncio">>, <<"create_subprocess_exec">>>>,
              <<<<"asyncio">>, <<"run">>>>, <<<<"asyncio">>, <<"sleep">>>>,
              <<<<"logging", ".", "config">>, <<"listen">>>>,
              <<Code("InteractiveInterpreter"), <<"runsource">>>>,
              <<Code("InteractiveInterpreter"), <<"runcode">>>>,
              <<Code("InteractiveInterpreter"), <<"write">>>>,
              <<Code("InteractiveConsole"), <<"push">>>>,
              <<Code("InteractiveConsole"), <<"interact">>>>,
              <<Code("InteractiveConsole"), <<"raw_input">>>>,
              <<<<"code">>, <<"interact">>>>,
              <<<<"code">>, <<"compile_command">>>> }
          [] l = "jvm" ->
            { <<JavaLang("Runtime"), <<"exec">>>>,
              <<Xpath, <<"compile">>>>, <<Xpath, <<"evaluate">>>>,
              <<JavaLang("Thread"), <<"sleep">>>>, <<JavaLang("Thread"), <<"run">>>>,
              <<JavaLang("Runnable"), <<"run">>>>,
              <<Concurrent("Executor"), <<"execute">>>>,
              <<Concurrent("Callable"), <<"call">>>>,
              <<JavaLang("System"), <<"console">>>>,
              <<JavaLang("System"), <<"load">>>>,
              <<JavaLang("System"), <<"loadLibrary">>>>,
              <<JavaLang("System"), <<"apLibraryName">>>>,
              <<JavaLang("System"), <<"runFinalization">>>>,
              <<JavaLang("System"), <<"setErr">>>>,
              <<JavaLang("System"), <<"setIn">>>>,
              <<JavaLang("System"), <<"setOut">>>>,
              <<JavaLang("System"), <<"setProperties">>>>,
              <<JavaLang("System"), <<"setProperty">>>>,
              <<JavaLang("System"), <<"setSecurityManager">>>>,
              <<JavaLang("ProcessBuilder"), <<"directory">>>>,
              <<JavaLang("ProcessBuilder"), <<"inheritIO">>>>,
              <<JavaLang("ProcessBuilder"), <<"command">>>>,
              <<JavaLang("ProcessBuilder"), <<"edirectError">>>>,
              <<JavaLang("ProcessBuilder"), <<"redirectErrorStream">>>>,
              <<JavaLang("ProcessBuilder"), <<"redirectInput">>>>,
              <<JavaLang("ProcessBuilder"), <<"redirectOutput">>>>,
              <<JavaLang("ProcessBuilder"), <<"start">>>> }]

----------------------------------------------------------------------------
(* Data model: the fields of the collaborators' records that the analysis  *)
(* reads.                                                                  *)

\* function_profile.FunctionProfile; callsite is the dict of outgoing calls,
\* a sequence of <<callee name, descriptor>> items with distinct keys
FunctionProfile(name, file, callsite, incoming, reached) ==
    [function_name |-> name, function_source_file |-> file, callsite |-> callsite,
     incoming_references |-> incoming, reached_by_fuzzers |-> reached]

\* cfg_load.CalltreeCallsite; parent is None or a record with the two
\* destination fields the analysis reads from it
CalltreeCallsite(src_file, src_name, line, dst_name, parent) ==
    [src_function_source_file |-> src_file, src_function_name |-> src_name,
     src_linenumber |-> line, dst_function_name |-> dst_name,
     parent_calltree_callsite |-> parent]

ParentNode(dst_file, dst_name) ==
    [dst_function_source_file |-> dst_file, dst_function_name |-> dst_name]

\* utils.demangle_cpp_func: the display name of a mangled C++ symbol, the
\* name itself when it is not one
demangle_cpp_func(name) ==
    IF name = <<"_Z6systemv">> THEN <<"system", "(", ")">>
    ELSE IF name = <<"_Z5popenPKcS0_">>
         THEN <<"popen", "(", "char const*, char const*", ")">>
    ELSE name

----------------------------------------------------------------------------
(* filter_function_list *)

\* a faulty jvm branch: the name is split at its last '.' before the
\* parameter signature is cut off
JvmKeyAnyParen(raw) ==
    LET parts == RSplit1(raw, ".")
    IN IF Len(parts) = 2 THEN <<parts[1], Split(parts[2], "(")[1]>>
       ELSE <<<<"default">>, Split(raw, "(")[1]>>

\* the jvm branch: the <<package, func_name>> derived from a raw name
JvmKey(raw) ==
    LET func_name == Split(raw, "(")[1]
    IN IF "." \in Range(func_name)
       THEN LET parts == RSplit1(func_name, ".") IN <<parts[1], parts[2]>>
       ELSE <<<<"default">>, func_name>>

\* the <<package, func_name>> of the loop body, for a supported language
SinkKey(fd, target_lang) ==
    CASE target_lang = "c-cpp" -> <<EmptyStr, demangle_cpp_func(fd.function_name)>>
      [] target_lang = "python" -> <<fd.function_source_file, fd.function_name>>
      [] target_lang = "jvm" -> JvmKey(fd.function_name)

RECURSIVE filter_function_list(_, _)
filter_function_list(functions, target_lang) ==
    IF functions = <<>> THEN <<>>
    ELSE LET fd == Head(functions)
             rest == filter_function_list(Tail(functions), target_lang)
         IN IF target_lang \notin SupportedLangs THEN rest
            ELSE IF SinkKey(fd, target_lang) \in SINK_FUNCTION[target_lang]
                 THEN <<fd>> \o rest
                 ELSE rest

----------------------------------------------------------------------------
(* retrieve_data_list *)

\* Python's None for a field that otherwise holds an object
NoneObj == [is_none |-> TRUE]

\* fuzzer_profile.FuzzerProfile; function_call_depths is NoneObj or the
\* call-depth structure, all_class_functions the items of the dict in order
FuzzerProfile(lang, depths, registry) ==
    [target_lang |-> lang, function_call_depths |-> depths,
     all_class_functions |-> registry]

\* the call-depth structure of a profile, given by the call sites of its tree
CallDepths(callsites) == [callsites |-> callsites]

\* cfg_load.extract_all_callsites: the call sites of the tree as a flat list
extract_all_callsites(depths) == depths.callsites

\* one `for (key, function) in ....items()` loop; st holds function_list
\* and function_name_list
RECURSIVE AddFunctions(_, _)
AddFunctions(items, st) ==
    IF items = <<>> THEN st
    ELSE LET key == Head(items)[1]
             function == Head(items)[2]
         IN IF key \notin Range(st.function_name_list)
            THEN AddFunctions(Tail(items),
                     [function_list |-> Append(st.function_list, function),
                      function_name_list |->
                          Append(st.function_name_list, function.function_name)])
            ELSE AddFunctions(Tail(items), st)

\* the `for profile in profiles` loop; st also holds callsite_list
RECURSIVE AddProfiles(_, _)
AddProfiles(ps, st) ==
    IF ps = <<>> THEN st
    ELSE LET profile == Head(ps)
             cl == IF profile.function_call_depths # NoneObj
                   THEN st.callsite_list
                            \o extract_all_callsites(profile.function_call_depths)
                   ELSE st.callsite_list
             fl == AddFunctions(profile.all_class_functions,
                       [function_list |-> st.function_list,
                        function_name_list |-> st.function_name_list])
         IN AddProfiles(Tail(ps),
                [callsite_list |-> cl, function_list |-> fl.function_list,
                 function_name_list |-> fl.function_name_list])

retrieve_data_list(proj, ps) ==
    LET first == AddFunctions(proj.all_functions,
                     [function_list |-> <<>>, function_name_list |-> <<>>])
        all == AddProfiles(ps,
                   [callsite_list |-> <<>>, function_list |-> first.function_list,
                    function_name_list |-> first.function_name_list])
    IN <<all.callsite_list, all.function_list>>

----------------------------------------------------------------------------
(* map_function_callsite *)

_get_source_file(callsite) ==
    LET src_file == callsite.src_function_source_file
        parent == callsite.parent_calltree_callsite
    IN IF IsFalsy(src_file) /\ parent # NoneObj
       THEN IF IsFalsy(parent.dst_function_source_file) THEN EmptyStr
            ELSE parent.dst_function_source_file
       ELSE src_file

_get_parent_func_name(callsite) ==
    LET func_file == callsite.src_function_source_file
        parent == callsite.parent_calltree_callsite
    IN IF IsFalsy(func_file) /\ parent # NoneObj
       THEN IF IsFalsy(parent.dst_function_name) THEN EmptyStr
            ELSE parent.dst_function_name
       ELSE func_file

\* "%s" % n for an int
FormatInt(n) == <<ToString(n)>>

\* "%s#%s:%s" % (source file, parent function name, line number)
Descriptor(callsite) ==
    FormatS(_get_source_file(callsite)) \o <<"#">>
        \o FormatS(_get_parent_func_name(callsite)) \o <<":">>
        \o FormatInt(callsite.src_linenumber)

\* callsite_dict after the first loop: every function name maps to []
InitCallsiteDict(functions) ==
    [n \in {functions[i].function_name : i \in DOMAIN functions} |-> <<>>]

\* a faulty choice of the list: the caller's instead of the callee's
FiledUnderSource(callsite) == callsite.src_function_name

\* the callee whose list a call site's descriptor is appended to
FiledUnder(callsite) == callsite.dst_function_name

\* the `for callsite in callsites` loop
RECURSIVE AppendCallsites(_, _)
AppendCallsites(d, callsites) ==
    IF callsites = <<>> THEN d
    ELSE LET callsite == Head(callsites)
             func_name == FiledUnder(callsite)
         IN IF func_name \in DOMAIN d
            THEN AppendCallsites(
                     [d EXCEPT ![func_name] = Append(@, Descriptor(callsite))],
                     Tail(callsites))
            ELSE AppendCallsites(d, Tail(callsites))

\* list(set(value)): the lists that hold each element of value once, in any
\* order (the order of a set of str is not fixed by the language)
ListOfSet(value) ==
    LET S == Range(value)
    IN {l \in [1..Cardinality(S) -> S] : \A i, j \in DOMAIN l : l[i] = l[j] => i = j}

\* the dicts map_function_callsite can return
map_function_callsite(functions, callsites) ==
    LET d == AppendCallsites(InitCallsiteDict(functions), callsites)
        lists == UNION {ListOfSet(d[k]) : k \in DOMAIN d}
    IN {r \in [DOMAIN d -> lists] : \A k \in DOMAIN d : r[k] \in ListOfSet(d[k])}

----------------------------------------------------------------------------
(* retrieve_reachable_functions *)

\* the (func_name, callsite_str) items of every function, in loop order
RECURSIVE Edges(_)
Edges(functions) ==
    IF functions = <<>> THEN <<>>
    ELSE Head(functions).callsite \o Edges(Tail(functions))

\* what list.extend(s) appends for a str s: its characters, each a str
Chars(s) == [i \in DOMAIN s |-> <<s[i]>>]

\* the two loops over the edges; the result is the exception raised, and
\* function_list as a list
RECURSIVE ReachLoop(_, _, _)
ReachLoop(edges, function_callsites, acc) ==
    IF edges = <<>> THEN [err |-> NoError, function_list |-> acc]
    ELSE LET func_name == Head(edges)[1]
             callsite_str == Head(edges)[2]
         IN IF func_name \notin DOMAIN function_callsites
            THEN [err |-> "KeyError", function_list |-> acc]
            ELSE IF callsite_str \in Range(function_callsites[func_name])
            THEN ReachLoop(Tail(edges), function_callsites,
                           acc \o Chars(callsite_str))
            ELSE ReachLoop(Tail(edges), function_callsites, acc)

\* list(set(function_list)) is kept as the set of its elements: the analysis
\* only tests membership in it
retrieve_reachable_functions(functions, function_callsites) ==
    LET r == ReachLoop(Edges(functions), function_callsites, <<>>)
    IN [err |-> r.err, function_list |-> Range(r.function_list)]

----------------------------------------------------------------------------
(* analysis_func: the coverage correlation loop *)

\* the decimal numerals int() is given in the model
IntLiterals == 0..9

\* whether int(s) returns (it raises ValueError otherwise)
IsIntLiteral(s) == Len(s) = 1 /\ \E n \in IntLiterals : ToString(n) = s[1]

\* int(s) for a numeral
ParseInt(s) == CHOOSE n \in IntLiterals : ToString(n) = s[1]

\* called_location.split(":")[1]: the second field (Python counts from 0)
SecondField(called_location) == Split(called_location, ":")[2]

\* the `for parent_func in fd.incoming_references` loop: the exception that
\* escapes it, fuzzer_hit, and the queries made to is_func_lineno_hit
RECURSIVE ParentLoop(_, _, _, _)
ParentLoop(parents, called_location, coverage, qs) ==
    IF parents = <<>> THEN [err |-> NoError, fuzzer_hit |-> FALSE, queries |-> qs]
    ELSE IF Len(Split(called_location, ":")) < 2
         THEN [err |-> "IndexError", fuzzer_hit |-> FALSE, queries |-> qs]
    ELSE IF ~IsIntLiteral(SecondField(called_location))
         THEN ParentLoop(Tail(parents), called_location, coverage, qs)
    ELSE LET lineno == ParseInt(SecondField(called_location))
             q == <<Head(parents), lineno>>
         IN IF q \in coverage
            THEN [err |-> NoError, fuzzer_hit |-> TRUE, queries |-> Append(qs, q)]
            ELSE ParentLoop(Tail(parents), called_location, coverage, Append(qs, q))

\* the marker [""] reported when no fuzzer hit the call
EmptyMarker == <<EmptyStr>>

\* the fields of one html_table_add_row call, before rendering
Row(fd, called_location, reachable, list_of_fuzzer_covered) ==
    [function_name |-> fd.function_name, called_location |-> called_location,
     reachable |-> reachable, covered |-> list_of_fuzzer_covered]

----------------------------------------------------------------------------
(* Actions: the steps of analysis_func, each the whole call of one method *)

\* line 301
RetrieveDataList ==
    /\ pc = "retrieve_data_list"
    /\ LET r == retrieve_data_list(proj_profile, profiles)
       IN /\ callsite_list' = r[1]
          /\ function_list' = r[2]
    /\ pc' = "map_function_callsite"
    /\ UNCHANGED <<proj_profile, profiles, function_callsite_dict,
                   reachable_function_list, sink_list, fd_idx, loc_idx, rows,
                   queries, err>>

\* line 304
MapFunctionCallsite ==
    /\ pc = "map_function_callsite"
    /\ function_callsite_dict' \in map_function_callsite(function_list, callsite_list)
    /\ pc' = "retrieve_reachable_functions"
    /\ UNCHANGED <<proj_profile, profiles, callsite_list, function_list,
                   reachable_function_list, sink_list, fd_idx, loc_idx, rows,
                   queries, err>>

\* lines 307-310; a KeyError ends the run
RetrieveReachableFunctions ==
    /\ pc = "retrieve_reachable_functions"
    /\ LET r == retrieve_reachable_functions(function_list, function_callsite_dict)
       IN IF r.err = NoError
          THEN /\ reachable_function_list' = r.function_list
               /\ pc' = "filter_function_list"
               /\ err' = err
          ELSE /\ reachable_function_list' = reachable_function_list
               /\ pc' = "failed"
               /\ err' = r.err
    /\ UNCHANGED <<proj_profile, profiles, callsite_list, function_list,
                   function_callsite_dict, sink_list, fd_idx, loc_idx, rows, queries>>

\* line 366: the list the outer loop iterates
FilterFunctionList ==
    /\ pc = "filter_function_list"
    /\ sink_list' = filter_function_list(function_list, profiles[1].target_lang)
    /\ fd_idx' = 1
    /\ loc_idx' = 1
    /\ pc' = "rows"
    /\ UNCHANGED <<proj_profile, profiles, callsite_list, function_list,
                   function_callsite_dict, reachable_function_list, rows, queries, err>>

\* lines 368-387: one pass of the inner loop body
CorrelateRow ==
    /\ pc = "rows"
    /\ fd_idx <= Len(sink_list)
    /\ loc_idx <= Len(function_callsite_dict[sink_list[fd_idx].function_name])
    /\ LET fd == sink_list[fd_idx]
           called_location == function_callsite_dict[fd.function_name][loc_idx]
           r == ParentLoop(fd.incoming_references, called_location,
                           proj_profile.runtime_coverage, <<>>)
           list_of_fuzzer_covered ==
               IF r.fuzzer_hit THEN fd.reached_by_fuzzers ELSE EmptyMarker
       IN IF r.err = NoError
          THEN /\ rows' = Append(rows,
                       Row(fd, called_location,
                           called_location \in reachable_function_list,
                           list_of_fuzzer_covered))
               /\ queries' = Append(queries, r.queries)
               /\ loc_idx' = loc_idx + 1
               /\ UNCHANGED <<pc, err>>
          ELSE /\ pc' = "failed"
               /\ err' = r.err
               /\ UNCHANGED <<rows, queries, loc_idx>>
    /\ UNCHANGED <<proj_profile, profiles, callsite_list, function_list,
                   function_callsite_dict, reachable_function_list, sink_list, fd_idx>>

\* line 366: the inner loop is exhausted, the outer loop takes the next sink
NextSink ==
    /\ pc = "rows"
    /\ fd_idx <= Len(sink_list)
    /\ loc_idx > Len(function_callsite_dict[sink_list[fd_idx].function_name])
    /\ fd_idx' = fd_idx + 1
    /\ loc_idx' = 1
    /\ UNCHANGED <<proj_profile, profiles, callsite_list, function_list,
                   function_callsite_dict, reachable_function_list, sink_list,
                   rows, queries, pc, err>>

\* lines 388-394: the outer loop is exhausted, the report is returned
Finish ==
    /\ pc = "rows"
    /\ fd_idx > Len(sink_list)
    /\ pc' = "done"
    /\ UNCHANGED <<proj_profile, profiles, callsite_list, function_list,
                   function_callsite_dict, reachable_function_list, sink_list,
                   fd_idx, loc_idx, rows, queries, err>>

Next ==
    \/ RetrieveDataList
    \/ MapFunctionCallsite
    \/ RetrieveReachableFunctions
    \/ FilterFunctionList
    \/ CorrelateRow
    \/ NextSink
    \/ Finish

----------------------------------------------------------------------------
(* Inputs *)

MaxFuncs == 2        \* longest list of functions given to a method
MaxCallsites == 2    \* longest list of call sites
MaxProfiles == 2     \* most fuzzer profiles of a project
MaxRegistry == 2     \* most entries of the project-wide function registry

SeqsUpTo(S, n) == UNION {[1..k -> S] : k \in 0..n}

SomeLangs == SupportedLangs \cup {"rust"}

\* the part of the state a method called on its own does not read
NoProject == [all_functions |-> <<>>, runtime_coverage |-> {}]
NoDict == [n \in {} |-> <<>>]

----------------------------------------------------------------------------
(* filter_function_list on its own *)

FilterNames ==
    { <<"system">>, <<"_Z6systemv">>, <<"exec">>, <<"exec", "(", ")">>,
      <<"os", ".", "system">>,
      JavaLang("Runtime") \o <<".", "exec", "(", "Ljava/lang/String;", ")">>,
      JavaLang("Thread") \o <<".", "sleep", "(", "java", ".", "lang", ".", "Long", ")">>,
      <<"java", ".", "lang", ".", "runtime", ".", "exec">> }

FilterFiles == {EmptyStr, <<"os">>, <<"main", ".", "py">>}

FilterFunctions ==
    {FunctionProfile(n, f, <<>>, <<>>, <<>>) : n \in FilterNames, f \in FilterFiles}

InitFilter ==
    /\ function_list \in SeqsUpTo(FilterFunctions, MaxFuncs)
    /\ profiles \in {<<FuzzerProfile(l, NoneObj, <<>>)>> : l \in SomeLangs}
    /\ proj_profile = NoProject
    /\ callsite_list = <<>>
    /\ function_callsite_dict = NoDict
    /\ reachable_function_list = {}
    /\ sink_list = <<>>
    /\ fd_idx = 1
    /\ loc_idx = 1
    /\ rows = <<>>
    /\ queries = <<>>
    /\ pc = "filter_function_list"
    /\ err = NoError

SpecFilter == InitFilter /\ [][FilterFunctionList]_vars

----------------------------------------------------------------------------
(* map_function_callsite on its own *)

IndexNames == {<<"system">>, <<"g">>}

IndexFunctions == {FunctionProfile(n, EmptyStr, <<>>, <<>>, <<>>) : n \in IndexNames}

IndexCallsites ==
    {CalltreeCallsite(sf, sn, 1, dst, par) :
        sf \in {None, <<"a">>}, sn \in {None, <<"f">>}, dst \in IndexNames,
        par \in {NoneObj, ParentNode(<<"b">>, <<"p">>)}}
    \cup {CalltreeCallsite(EmptyStr, None, 2, <<"system">>, ParentNode(None, None)),
          CalltreeCallsite(EmptyStr, <<"f">>, 2, <<"g">>, NoneObj),
          CalltreeCallsite(None, <<"f">>, 2, <<"ext">>, ParentNode(EmptyStr, <<"p">>))}

InitIndex ==
    /\ function_list \in SeqsUpTo(IndexFunctions, MaxFuncs)
    /\ callsite_list \in SeqsUpTo(IndexCallsites, MaxCallsites)
    /\ profiles = <<>>
    /\ proj_profile = NoProject
    /\ function_callsite_dict = NoDict
    /\ reachable_function_list = {}
    /\ sink_list = <<>>
    /\ fd_idx = 1
    /\ loc_idx = 1
    /\ rows = <<>>
    /\ queries = <<>>
    /\ pc = "map_function_callsite"
    /\ err = NoError

SpecIndex == InitIndex /\ [][MapFunctionCallsite]_vars

----------------------------------------------------------------------------
(* retrieve_reachable_functions on its own; the descriptors are written    *)
(* with one-character atoms, so that Chars gives their characters          *)

D1 == <<"a", "#", "f", ":", "1">>
D2 == <<"b", "#", "g", ":", "2">>

ReachCallsiteDicts ==
    { <<>>,
      <<<<<<"system">>, D1>>>>, <<<<<<"system">>, D2>>>>, <<<<<<"popen">>, D1>>>>,
      <<<<<<"system">>, D1>>, <<<<"popen">>, D2>>>>,
      <<<<<<"popen">>, D2>>, <<<<"system">>, D1>>>> }

ReachFunctions ==
    {FunctionProfile(n, EmptyStr, c, <<>>, <<>>) :
        n \in {<<"system">>, <<"run">>}, c \in ReachCallsiteDicts}

ReachLists == {<<>>, <<D1>>, <<D1, D2>>}

ReachDicts ==
    UNION {[K -> ReachLists] : K \in {{}, {<<"system">>}, {<<"system">>, <<"popen">>}}}

InitReach ==
    /\ function_list \in SeqsUpTo(ReachFunctions, MaxFuncs)
    /\ function_callsite_dict \in ReachDicts
    /\ profiles = <<>>
    /\ proj_profile = NoProject
    /\ callsite_list = <<>>
    /\ reachable_function_list = {}
    /\ sink_list = <<>>
    /\ fd_idx = 1
    /\ loc_idx = 1
    /\ rows = <<>>
    /\ queries = <<>>
    /\ pc = "retrieve_reachable_functions"
    /\ err = NoError

SpecReach == InitReach /\ [][RetrieveReachableFunctions]_vars

----------------------------------------------------------------------------
(* retrieve_data_list on its own; the declaring file tells two records of  *)
(* one name apart                                                          *)

CollectNames == {<<"foo">>, <<"bar">>}

CollectFunctions ==
    {FunctionProfile(n, f, <<>>, <<>>, <<>>) : n \in CollectNames, f \in {<<"p">>, <<"q">>}}

\* the items of a dict: the keys are distinct
Registries(n) ==
    {r \in SeqsUpTo(CollectNames \X CollectFunctions, n) :
        \A i, j \in DOMAIN r : r[i][1] = r[j][1] => i = j}

CollectCallsite == CalltreeCallsite(<<"a">>, <<"f">>, 1, <<"foo">>, NoneObj)

CollectProfiles ==
    {FuzzerProfile("c-cpp", d, r) :
        d \in {NoneObj, CallDepths(<<CollectCallsite>>)}, r \in Registries(1)}

InitCollect ==
    /\ proj_profile \in
           {[all_functions |-> r, runtime_coverage |-> {}] : r \in Registries(MaxRegistry)}
    /\ profiles \in SeqsUpTo(CollectProfiles, MaxProfiles) \ {<<>>}
    /\ callsite_list = <<>>
    /\ function_list = <<>>
    /\ function_callsite_dict = NoDict
    /\ reachable_function_list = {}
    /\ sink_list = <<>>
    /\ fd_idx = 1
    /\ loc_idx = 1
    /\ rows = <<>>
    /\ queries = <<>>
    /\ pc = "retrieve_data_list"
    /\ err = NoError

SpecCollect == InitCollect /\ [][RetrieveDataList]_vars

----------------------------------------------------------------------------
(* analysis_func as a whole *)

Fuzzers == <<<<"fuzz1">>, <<"fuzz2">>>>

Callers == {<<"run">>, <<"main">>}

RunIncoming == {<<>>, <<<<"run">>>>, <<<<"run">>, <<"main">>>>, <<<<"main">>, <<"run">>>>}

RunCoverage == {{}} \cup {{<<c, l>>} : c \in Callers, l \in {1, 2}}

\* the outgoing calls the function run records
RunEdges ==
    { <<>>,
      <<<<<<"system">>, <<"a", "#", "a", ":", "1">>>>>>,
      <<<<<<"ext">>, <<"a", "#", "a", ":", "1">>>>>> }

RunCallsites ==
    { CalltreeCallsite(<<"a">>, <<"run">>, 1, <<"system">>, NoneObj),
      CalltreeCallsite(None, None, 1, <<"system">>,
                       ParentNode(<<"b">>, <<"ns", ":", ":", "f">>)),
      CalltreeCallsite(None, None, 1, <<"system">>, ParentNode(None, <<"f", ":", "2">>)),
      CalltreeCallsite(None, None, 2, <<"system">>, NoneObj),
      CalltreeCallsite(<<"a">>, <<"run">>, 2, <<"popen">>, NoneObj),
      CalltreeCallsite(None, <<"run">>, 2, <<"popen">>,
                       ParentNode(<<"b">>, <<"ns", ":", ":", "f">>)) }

Init ==
    /\ proj_profile \in
           {[all_functions |->
                 << <<<<"system">>,
                      FunctionProfile(<<"system">>, <<"stdlib", ".", "h">>, <<>>, inc, Fuzzers)>>,
                    <<<<"run">>, FunctionProfile(<<"run">>, <<"a">>, e, <<>>, <<>>)>> >>,
             runtime_coverage |-> cov] :
               inc \in RunIncoming, e \in RunEdges, cov \in RunCoverage}
    /\ profiles \in
           {<<FuzzerProfile(l, CallDepths(cs),
                  << <<<<"popen">>,
                       FunctionProfile(<<"popen">>, <<"stdio", ".", "h">>, <<>>,
                                       <<<<"run">>>>, <<<<"fuzz1">>>>)>> >>)>> :
               l \in {"c-cpp", "rust"}, cs \in SeqsUpTo(RunCallsites, MaxCallsites)}
    /\ callsite_list = <<>>
    /\ function_list = <<>>
    /\ function_callsite_dict = NoDict
    /\ reachable_function_list = {}
    /\ sink_list = <<>>
    /\ fd_idx = 1
    /\ loc_idx = 1
    /\ rows = <<>>
    /\ queries = <<>>
    /\ pc = "retrieve_data_list"
    /\ err = NoError

Spec == Init /\ [][Next]_vars

----------------------------------------------------------------------------
(* Properties *)

\* the text of s before the first c, all of s when there is no c
TextBefore(s, c) ==
    IF c \in Range(s)
    THEN SubSeq(s, 1, (CHOOSE i \in DOMAIN s :
                           s[i] = c /\ \A j \in 1..(i - 1) : s[j] # c) - 1)
    ELSE s

\* the suffix of a descriptor after its final ':'
FinalSuffix(d) == LET parts == Split(d, ":") IN parts[Len(parts)]

\* whether <<q, n>> is the (qualifier, name) pair of fd for lang
DerivesPair(fd, lang, q, n) ==
    CASE lang = "c-cpp" -> q = EmptyStr /\ n = demangle_cpp_func(fd.function_name)
      [] lang = "python" -> q = fd.function_source_file /\ n = fd.function_name
      [] lang = "jvm" ->
            LET base == TextBefore(fd.function_name, "(")
            IN IF "." \in Range(base)
               THEN base = q \o <<".">> \o n /\ "." \notin Range(n)
               ELSE q = <<"default">> /\ n = base
      [] OTHER -> FALSE

InCatalog(fd, lang) ==
    /\ lang \in SupportedLangs
    /\ \E e \in SINK_FUNCTION[lang] : DerivesPair(fd, lang, e[1], e[2])

\* C1: filter_function_list returns, in order, exactly the functions whose
\* derived (qualifier, name) pair is an entry of the catalog of a supported
\* language; any other language gives the empty list, and no error.
C1_FilterKeepsExactlyCatalogMatches ==
    pc = "rows" =>
        LET lang == profiles[1].target_lang
            Keep(fd) == InCatalog(fd, lang)
        IN /\ sink_list = SelectSeq(function_list, Keep)
           /\ lang \notin SupportedLangs => sink_list = <<>>
           /\ err = NoError

\* C1 witness: a jvm run that keeps a method with a parameter signature and
\* drops another function
C1_Witness ==
    /\ pc = "rows"
    /\ profiles[1].target_lang = "jvm"
    /\ Len(function_list) = 2
    /\ Len(sink_list) = 1
    /\ "(" \in Range(sink_list[1].function_name)

\* the descriptors a function's own outgoing calls share with the index
Corroborated ==
    {e[2] : e \in {x \in Range(Edges(function_list)) :
                      /\ x[1] \in DOMAIN function_callsite_dict
                      /\ x[2] \in Range(function_callsite_dict[x[1]])}}

\* C2: when retrieve_reachable_functions returns, its result is exactly the
\* set of descriptors d for which some function records an outgoing call
\* (callee, d) with d in index[callee].
C2_ReachableIsCorroboratedDescriptors ==
    pc = "filter_function_list" => reachable_function_list = Corroborated

\* the function record a report row was made for
SinkOf(row) == CHOOSE f \in Range(sink_list) : f.function_name = row.function_name

\* C3: a row whose descriptor ends in a line number L carries the sink's
\* full reached_by_fuzzers list if some incoming reference P has (P, L) hit,
\* and the empty marker otherwise.
C3_CoveredIffSomeCallerHit ==
    \A i \in DOMAIN rows :
        LET row == rows[i]
            fd == SinkOf(row)
            suffix == FinalSuffix(row.called_location)
        IN IsIntLiteral(suffix) =>
               LET hit == \E P \in Range(fd.incoming_references) :
                              <<P, ParseInt(suffix)>> \in proj_profile.runtime_coverage
               IN row.covered = IF hit THEN fd.reached_by_fuzzers ELSE EmptyMarker

\* every function record of the registries, in the order of iteration: the
\* project-wide registry, then each profile's
RECURSIVE ProfileItems(_)
ProfileItems(ps) ==
    IF ps = <<>> THEN <<>>
    ELSE Head(ps).all_class_functions \o ProfileItems(Tail(ps))

AllItems == proj_profile.all_functions \o ProfileItems(profiles)

\* C4: the function list of retrieve_data_list holds at most one record per
\* function name, and each record it holds is the first of its name in
\* iteration order, whatever the keys of the registries are.
C4_OneRecordPerNameFirstWins ==
    pc = "map_function_callsite" =>
        /\ \A i, j \in DOMAIN function_list :
               function_list[i].function_name = function_list[j].function_name => i = j
        /\ \A i \in DOMAIN function_list :
               \E k \in DOMAIN AllItems :
                   /\ AllItems[k][2] = function_list[i]
                   /\ \A m \in 1..(k - 1) :
                          AllItems[m][2].function_name # function_list[i].function_name

\* the segments of a descriptor as the fallback rule gives them
OwnOrParent(own, parent, field) ==
    IF ~IsFalsy(own) THEN own
    ELSE IF parent # NoneObj /\ ~IsFalsy(parent[field]) THEN parent[field]
    ELSE EmptyStr

RuleDescriptor(callsite) ==
    OwnOrParent(callsite.src_function_source_file, callsite.parent_calltree_callsite,
                "dst_function_source_file") \o <<"#">>
        \o OwnOrParent(callsite.src_function_name, callsite.parent_calltree_callsite,
                       "dst_function_name") \o <<":">>
        \o FormatInt(callsite.src_linenumber)

KnownDst(callsite) == callsite.dst_function_name \in DOMAIN function_callsite_dict

\* C5: for a call site of a known destination whose file and caller are
\* given by itself or by its parent, the descriptor stored is
\* <file>#<caller>:<line> with the caller taken from the source-function
\* name, or from the parent's destination-function name when that is absent.
C5_DescriptorFollowsFallbackRule ==
    pc = "retrieve_reachable_functions" =>
        \A i \in DOMAIN callsite_list :
            LET cs == callsite_list[i]
            IN (/\ KnownDst(cs)
                /\ OwnOrParent(cs.src_function_source_file, cs.parent_calltree_callsite,
                               "dst_function_source_file") # EmptyStr
                /\ OwnOrParent(cs.src_function_name, cs.parent_calltree_callsite,
                               "dst_function_name") # EmptyStr)
               => RuleDescriptor(cs) \in
                      Range(function_callsite_dict[cs.dst_function_name])

\* C6: a call site with no source file (None) and no parent node is stored
\* with an empty source-file segment, and None is not rendered as text.
C6_AbsentFileGivesEmptySegment ==
    pc = "retrieve_reachable_functions" =>
        \A i \in DOMAIN callsite_list :
            LET cs == callsite_list[i]
            IN (/\ KnownDst(cs)
                /\ cs.src_function_source_file = None
                /\ cs.parent_calltree_callsite = NoneObj)
               => \E d \in Range(function_callsite_dict[cs.dst_function_name]) :
                      /\ Split(d, "#")[1] = EmptyStr
                      /\ FinalSuffix(d) = FormatInt(cs.src_linenumber)
                      /\ "None" \notin Range(d)

\* C7: an outgoing call to a callee that is not a key of the index raises
\* no error: retrieve_reachable_functions returns.
C7_UnknownCalleeRaisesNothing ==
    (/\ pc # "retrieve_reachable_functions"
     /\ \E e \in Range(Edges(function_list)) : e[1] \notin DOMAIN function_callsite_dict)
    => (pc = "filter_function_list" /\ err = NoError)

\* C8: every line number passed to is_func_lineno_hit for a row is the
\* integer after the final ':' of the row's descriptor.
C8_QueriedLineIsFinalSuffix ==
    \A i \in DOMAIN queries :
        \A k \in DOMAIN queries[i] :
            LET suffix == FinalSuffix(rows[i].called_location)
            IN IsIntLiteral(suffix) /\ queries[i][k][2] = ParseInt(suffix)

\* C9: an occurrence whose line number analysis_func cannot parse
\* contributes no report row, and the parse ends the run with no error.
C9_UnparsableOccurrenceHasNoRow ==
    /\ \A i \in DOMAIN rows : IsIntLiteral(SecondField(rows[i].called_location))
    /\ err \notin {"ValueError", "IndexError"}

\* C10: the index has exactly the known function names as keys, no value
\* holds a descriptor twice, and a descriptor is under a key exactly when
\* some call site targeting that key produced it.
C10_IndexFiledUnderDestination ==
    pc = "retrieve_reachable_functions" =>
        /\ DOMAIN function_callsite_dict =
               {function_list[i].function_name : i \in DOMAIN function_list}
        /\ \A k \in DOMAIN function_callsite_dict :
               LET v == function_callsite_dict[k]
               IN /\ \A i, j \in DOMAIN v : v[i] = v[j] => i = j
                  /\ Range(v) = {Descriptor(callsite_list[i]) :
                                    i \in {j \in DOMAIN callsite_list :
                                              callsite_list[j].dst_function_name = k}}

\* C10 witness: two call sites of one destination give one descriptor, kept
\* once, while another known function has no call site
C10_Witness ==
    /\ pc = "retrieve_reachable_functions"
    /\ Len(callsite_list) = 2
    /\ callsite_list[1] # callsite_list[2]
    /\ \E k \in DOMAIN function_callsite_dict :
           /\ callsite_list[1].dst_function_name = k
           /\ callsite_list[2].dst_function_name = k
           /\ Len(function_callsite_dict[k]) = 1
    /\ \E k \in DOMAIN function_callsite_dict : function_callsite_dict[k] = <<>>

====
